---- MODULE Spec2Model ----
(***************************************************************************)
(* Startup of src/ext/server.py: the module-level statements of the script *)
(* executed one after the other.  Two executions of the script are         *)
(* modelled side by side (Runs); they are given environments that agree on *)
(* everything except BLOCKETHER_LLM_API_KEY, so that what an execution     *)
(* does can be compared across values of the API key.                      *)
(***************************************************************************)
EXTENDS Integers, Sequences, FiniteSets

(***************************************************************************)
(* Bounds of the model.                                                    *)
(***************************************************************************)
\* PORT takes every string over PortAlphabet of at most MaxPortLen characters
\* (besides the values named in NamedPorts).
MaxPortLen == 2

\* The two executions that are compared.
Runs == {1, 2}

(***************************************************************************)
(* Python values.  A str is the sequence of its characters.                *)
(***************************************************************************)
None == [type |-> "NoneType"]

PyStr(chars) == [type |-> "str", val |-> chars]

PyInt(n) == [type |-> "int", val |-> n]

\* The marker of a variable that is absent from os.environ.
Unset == [type |-> "unset"]

BASE_URL_VAR == "BLOCKETHER_LLM_API_BASE_URL"

API_KEY_VAR == "BLOCKETHER_LLM_API_KEY"

PORT_VAR == "PORT"

EnvNames == {BASE_URL_VAR, API_KEY_VAR, PORT_VAR}

\* os.getenv(key, default) and os.environ.get(key, default)
getenv(env, key, default) == IF env[key] = Unset THEN default ELSE env[key]

\* Python truth value of an Optional[str]: None and "" are falsy.
LenIsZero(v) == v.type = "str" /\ Len(v.val) = 0

\* Variant: `if MODEL_BASE_URL is None` in place of `if not MODEL_BASE_URL`.
FalsyOnlyNone(v) == v = None

Falsy(v) == v = None \/ LenIsZero(v)

(***************************************************************************)
(* int(str): surrounding whitespace is stripped, one sign is allowed, then *)
(* decimal digits, single underscores allowed between digits.              *)
(***************************************************************************)
Digits == <<"0", "1", "2", "3", "4", "5", "6", "7", "8", "9">>

IsDigit(c) == \E i \in 1..Len(Digits) : Digits[i] = c

DigitVal(c) == (CHOOSE i \in 1..Len(Digits) : Digits[i] = c) - 1

IsSpace(c) == c \in {" ", "\t", "\n"}

RECURSIVE LStrip(_)
LStrip(s) == IF s # <<>> /\ IsSpace(Head(s)) THEN LStrip(Tail(s)) ELSE s

RECURSIVE RStrip(_)
RStrip(s) ==
    IF s # <<>> /\ IsSpace(s[Len(s)]) THEN RStrip(SubSeq(s, 1, Len(s) - 1)) ELSE s

Strip(s) == RStrip(LStrip(s))

HasSign(s) == s # <<>> /\ Head(s) \in {"+", "-"}

Unsigned(s) == IF HasSign(s) THEN Tail(s) ELSE s

\* The digit string after the sign: digits, with single underscores between digits.
ValidDigits(b) ==
    /\ b # <<>>
    /\ \A i \in 1..Len(b) : IsDigit(b[i]) \/ b[i] = "_"
    /\ IsDigit(b[1])
    /\ IsDigit(b[Len(b)])
    /\ \A i \in 1..(Len(b) - 1) : ~(b[i] = "_" /\ b[i + 1] = "_")

RECURSIVE DigitsValue(_, _)
DigitsValue(b, acc) ==
    IF b = <<>> THEN acc
    ELSE IF Head(b) = "_" THEN DigitsValue(Tail(b), acc)
    ELSE DigitsValue(Tail(b), 10 * acc + DigitVal(Head(b)))

\* Whether int(s) returns (otherwise it raises ValueError).
IntParses(s) == ValidDigits(Unsigned(Strip(s)))

\* The value int(s) returns when it does.
IntValue(s) ==
    LET t == Strip(s)
        v == DigitsValue(Unsigned(t), 0)
    IN IF HasSign(t) /\ Head(t) = "-" THEN 0 - v ELSE v

(***************************************************************************)
(* The environments the script is started in.                              *)
(***************************************************************************)
RECURSIVE StringsUpTo(_, _)
StringsUpTo(alphabet, n) ==
    IF n = 0 THEN {<<>>}
    ELSE LET shorter == StringsUpTo(alphabet, n - 1)
         IN shorter \cup {Append(s, c) : s \in shorter, c \in alphabet}

PortAlphabet == {"9", "a", "-", "_", " "}

NamedPorts ==
    { <<"9", "0", "9", "0">>, <<"8", "0", "8", "0">>, <<"+", "8", "0">>,
      <<"8", "_", "0">>, <<" ", "8", "1", "\n">>, <<"a", "b", "c">> }

PortStrings == StringsUpTo(PortAlphabet, MaxPortLen) \cup NamedPorts

BaseUrlStrings == { <<>>, <<"h", "t", "t", "p", ":", "/", "/", "x">> }

ApiKeyStrings == { <<>>, <<"s", "k">> }

Optional(strings) == {Unset} \cup {PyStr(s) : s \in strings}

Environment(base, key, port) ==
    [n \in EnvNames |->
        IF n = BASE_URL_VAR THEN base ELSE IF n = API_KEY_VAR THEN key ELSE port]

ModuleNames == {"__main__", "server"}

(***************************************************************************)
(* State.  Every variable is a function of the execution.                  *)
(***************************************************************************)
VARIABLES
    environ,               \* os.environ
    name,                  \* __name__
    pc,                    \* the statement to execute next, or how the script ended
    MODEL_BASE_URL,        \* module globals of server.py; Unset before assignment
    MODEL_API_KEY,
    storage,
    blockether_model,
    conversational_agent,
    agent_os,
    app,
    heap,                  \* the classes of the objects constructed, in order
    port,                  \* the evaluated port argument of uvicorn.run
    server,                \* the arguments uvicorn.run was called with
    raised,                \* the exception that ended the script
    trace                  \* the statements executed so far

globals == <<MODEL_BASE_URL, MODEL_API_KEY, storage, blockether_model,
             conversational_agent, agent_os, app>>

vars == <<environ, name, pc, globals, heap, port, server, raised, trace>>

Init ==
    /\ \E base \in Optional(BaseUrlStrings), portText \in Optional(PortStrings),
          key1 \in Optional(ApiKeyStrings), key2 \in Optional(ApiKeyStrings) :
          environ = [r \in Runs |->
                       Environment(base, IF r = 1 THEN key1 ELSE key2, portText)]
    /\ \E n \in ModuleNames : name = [r \in Runs |-> n]
    /\ pc = [r \in Runs |-> "read_base_url"]
    /\ MODEL_BASE_URL = [r \in Runs |-> Unset]
    /\ MODEL_API_KEY = [r \in Runs |-> Unset]
    /\ storage = [r \in Runs |-> Unset]
    /\ blockether_model = [r \in Runs |-> Unset]
    /\ conversational_agent = [r \in Runs |-> Unset]
    /\ agent_os = [r \in Runs |-> Unset]
    /\ app = [r \in Runs |-> Unset]
    /\ heap = [r \in Runs |-> <<>>]
    /\ port = [r \in Runs |-> Unset]
    /\ server = [r \in Runs |-> Unset]
    /\ raised = [r \in Runs |-> Unset]
    /\ trace = [r \in Runs |-> <<>>]

\* Control passes to statement `next` after executing statement `stmt`.
Goto(r, stmt, next) ==
    /\ pc' = [pc EXCEPT ![r] = next]
    /\ trace' = [trace EXCEPT ![r] = Append(@, stmt)]

\* The id of the next object constructed: its position in the heap.
NextId(r) == Len(heap[r]) + 1

Allocate(r, classes) == heap' = [heap EXCEPT ![r] = @ \o classes]

(***************************************************************************)
(* The objects of the framework.  An object is a record of its class, its  *)
(* id and the arguments its constructor was given.                         *)
(***************************************************************************)
InMemoryDb(id) == [type |-> "InMemoryDb", id |-> id]

OpenAIChat(id, model_id, base_url) ==
    [type |-> "OpenAIChat", id |-> id, model_id |-> model_id, base_url |-> base_url]

Agent(id, model, db) == [type |-> "Agent", id |-> id, model |-> model, db |-> db]

AGUI(id, agent) == [type |-> "AGUI", id |-> id, agent |-> agent]

AgentOS(id, description, agents, enable_mcp_server, interfaces) ==
    [type |-> "AgentOS", id |-> id, description |-> description, agents |-> agents,
     enable_mcp_server |-> enable_mcp_server, interfaces |-> interfaces]

\* agent_os.get_app(): the web handler the server application builds.
WebHandler(id, os) == [type |-> "FastAPI", id |-> id, agent_os |-> os]

ValueError(message) == [type |-> "ValueError", message |-> message]

\* Line 16: the message, word by word.
MissingBaseUrlMessage ==
    <<"BLOCKETHER_LLM_API_BASE_URL", "environment", "variable", "is", "not", "set.">>

\* The message of int() for a string it rejects.
InvalidLiteralMessage == <<"invalid", "literal", "for", "int()", "with", "base", "10">>

HOST == "0.0.0.0"

\* Variant: another port as the fallback of os.environ.get.
DefaultPort8000 == <<"8", "0", "0", "0">>

DEFAULT_PORT == <<"8", "0", "8", "0">>

MODEL_ID == "gpt-4o"

(***************************************************************************)
(* The statements of the script, one action each.                          *)
(***************************************************************************)
\* Line 13
ReadBaseUrl(r) ==
    /\ pc[r] = "read_base_url"
    /\ MODEL_BASE_URL' = [MODEL_BASE_URL EXCEPT ![r] = getenv(environ[r], BASE_URL_VAR, None)]
    /\ Goto(r, "read_base_url", "read_api_key")
    /\ UNCHANGED <<environ, name, MODEL_API_KEY, storage, blockether_model,
                   conversational_agent, agent_os, app, heap, port, server, raised>>

\* Line 14
ReadApiKey(r) ==
    /\ pc[r] = "read_api_key"
    /\ MODEL_API_KEY' = [MODEL_API_KEY EXCEPT ![r] = getenv(environ[r], API_KEY_VAR, None)]
    /\ Goto(r, "read_api_key", "check_base_url")
    /\ UNCHANGED <<environ, name, MODEL_BASE_URL, storage, blockether_model,
                   conversational_agent, agent_os, app, heap, port, server, raised>>

\* Variant: `if MODEL_BASE_URL == ""`, which lets an unset variable through.
BaseUrlMissingOnlyEmpty(r) == LenIsZero(MODEL_BASE_URL[r])

\* Variant: `if not MODEL_BASE_URL or not MODEL_API_KEY`, validating the key too.
AnyVariableMissing(r) == Falsy(MODEL_BASE_URL[r]) \/ Falsy(MODEL_API_KEY[r])

\* Line 15: the condition of the if statement
BaseUrlMissing(r) == Falsy(MODEL_BASE_URL[r])

\* Variant: `storage = InMemoryDb()` placed above the check.
CheckBaseUrlAfterStorage(r) ==
    /\ pc[r] = "check_base_url"
    /\ storage' = [storage EXCEPT ![r] = InMemoryDb(NextId(r))]
    /\ Allocate(r, <<"InMemoryDb">>)
    /\ IF Falsy(MODEL_BASE_URL[r])
       THEN /\ raised' = [raised EXCEPT ![r] = ValueError(MissingBaseUrlMessage)]
            /\ Goto(r, "check_base_url", "error")
       ELSE /\ Goto(r, "check_base_url", "make_model")
            /\ UNCHANGED raised
    /\ UNCHANGED <<environ, name, MODEL_BASE_URL, MODEL_API_KEY, blockether_model,
                   conversational_agent, agent_os, app, port, server>>

\* Lines 15-16
CheckBaseUrl(r) ==
    /\ pc[r] = "check_base_url"
    /\ IF BaseUrlMissing(r)
       THEN /\ raised' = [raised EXCEPT ![r] = ValueError(MissingBaseUrlMessage)]
            /\ Goto(r, "check_base_url", "error")
       ELSE /\ Goto(r, "check_base_url", "make_storage")
            /\ UNCHANGED raised
    /\ UNCHANGED <<environ, name, globals, heap, port, server>>

\* Line 18
MakeStorage(r) ==
    /\ pc[r] = "make_storage"
    /\ storage' = [storage EXCEPT ![r] = InMemoryDb(NextId(r))]
    /\ Allocate(r, <<"InMemoryDb">>)
    /\ Goto(r, "make_storage", "make_model")
    /\ UNCHANGED <<environ, name, MODEL_BASE_URL, MODEL_API_KEY, blockether_model,
                   conversational_agent, agent_os, app, port, server, raised>>

\* Variant: OpenAIChat(id="gpt-4o") without base_url.
MakeModelWithoutBaseUrl(r) ==
    /\ pc[r] = "make_model"
    /\ blockether_model' =
          [blockether_model EXCEPT ![r] = OpenAIChat(NextId(r), MODEL_ID, None)]
    /\ Allocate(r, <<"OpenAIChat">>)
    /\ Goto(r, "make_model", "make_agent")
    /\ UNCHANGED <<environ, name, MODEL_BASE_URL, MODEL_API_KEY, storage,
                   conversational_agent, agent_os, app, port, server, raised>>

\* Line 20
MakeModel(r) ==
    /\ pc[r] = "make_model"
    /\ blockether_model' =
          [blockether_model EXCEPT ![r] = OpenAIChat(NextId(r), MODEL_ID, MODEL_BASE_URL[r])]
    /\ Allocate(r, <<"OpenAIChat">>)
    /\ Goto(r, "make_model", "make_agent")
    /\ UNCHANGED <<environ, name, MODEL_BASE_URL, MODEL_API_KEY, storage,
                   conversational_agent, agent_os, app, port, server, raised>>

\* Line 22
MakeAgent(r) ==
    /\ pc[r] = "make_agent"
    /\ conversational_agent' =
          [conversational_agent EXCEPT ![r] = Agent(NextId(r), blockether_model[r], storage[r])]
    /\ Allocate(r, <<"Agent">>)
    /\ Goto(r, "make_agent", "make_agent_os")
    /\ UNCHANGED <<environ, name, MODEL_BASE_URL, MODEL_API_KEY, storage,
                   blockether_model, agent_os, app, port, server, raised>>

\* Variant: the interface bound to a second agent built in place.
MakeInterfaceWithOwnAgent(r, id) ==
    AGUI(id, Agent(id + 2, blockether_model[r], storage[r]))

\* Line 28: the AG-UI interface, an argument of the AgentOS constructor
MakeInterface(r, id) == AGUI(id, conversational_agent[r])

\* Lines 24-29: the arguments are evaluated, then AgentOS is constructed
MakeAgentOS(r) ==
    /\ pc[r] = "make_agent_os"
    /\ agent_os' =
          [agent_os EXCEPT ![r] =
              AgentOS(NextId(r) + 1, "Example app with MCP enabled",
                      <<conversational_agent[r]>>, TRUE,
                      <<MakeInterface(r, NextId(r))>>)]
    /\ Allocate(r, <<"AGUI", "AgentOS">>)
    /\ Goto(r, "make_agent_os", "get_app")
    /\ UNCHANGED <<environ, name, MODEL_BASE_URL, MODEL_API_KEY, storage,
                   blockether_model, conversational_agent, app, port, server, raised>>

\* Line 31
GetApp(r) ==
    /\ pc[r] = "get_app"
    /\ app' = [app EXCEPT ![r] = WebHandler(NextId(r), agent_os[r])]
    /\ Allocate(r, <<"FastAPI">>)
    /\ Goto(r, "get_app", "main_guard")
    /\ UNCHANGED <<environ, name, MODEL_BASE_URL, MODEL_API_KEY, storage,
                   blockether_model, conversational_agent, agent_os, port, server, raised>>

\* Variant: the `if __name__ == "__main__"` guard left out.
Unguarded(r) == name[r] \in ModuleNames

\* Line 33: the condition of the if statement
IsMain(r) == name[r] = "__main__"

\* Line 33.  An imported module is complete once the guard is passed over.
MainGuard(r) ==
    /\ pc[r] = "main_guard"
    /\ IF IsMain(r)
       THEN Goto(r, "main_guard", "eval_port")
       ELSE Goto(r, "main_guard", "imported")
    /\ UNCHANGED <<environ, name, globals, heap, port, server, raised>>

\* Line 34: os.environ.get("PORT", "8080")
PortText(r) == getenv(environ[r], PORT_VAR, PyStr(DEFAULT_PORT))

\* Variant: os.environ["PORT"], which raises KeyError when PORT is unset.
EvalPortNoDefault(r) ==
    /\ pc[r] = "eval_port"
    /\ IF environ[r][PORT_VAR] = Unset
       THEN /\ raised' = [raised EXCEPT ![r] = [type |-> "KeyError", message |-> <<PORT_VAR>>]]
            /\ Goto(r, "eval_port", "error")
            /\ UNCHANGED port
       ELSE IF IntParses(environ[r][PORT_VAR].val)
       THEN /\ port' = [port EXCEPT ![r] = PyInt(IntValue(environ[r][PORT_VAR].val))]
            /\ Goto(r, "eval_port", "uvicorn_run")
            /\ UNCHANGED raised
       ELSE /\ raised' = [raised EXCEPT ![r] = ValueError(InvalidLiteralMessage)]
            /\ Goto(r, "eval_port", "error")
            /\ UNCHANGED port
    /\ UNCHANGED <<environ, name, globals, heap, server>>

\* Variant: a PORT that int() rejects is replaced by the default port.
EvalPortFallback(r) ==
    /\ pc[r] = "eval_port"
    /\ port' = [port EXCEPT ![r] =
                  IF IntParses(PortText(r).val)
                  THEN PyInt(IntValue(PortText(r).val))
                  ELSE PyInt(IntValue(DEFAULT_PORT))]
    /\ Goto(r, "eval_port", "uvicorn_run")
    /\ UNCHANGED <<environ, name, globals, heap, server, raised>>

\* Line 34: the argument int(os.environ.get("PORT", "8080")) is evaluated
\* before uvicorn.run is called
EvalPort(r) ==
    /\ pc[r] = "eval_port"
    /\ IF IntParses(PortText(r).val)
       THEN /\ port' = [port EXCEPT ![r] = PyInt(IntValue(PortText(r).val))]
            /\ Goto(r, "eval_port", "uvicorn_run")
            /\ UNCHANGED raised
       ELSE /\ raised' = [raised EXCEPT ![r] = ValueError(InvalidLiteralMessage)]
            /\ Goto(r, "eval_port", "error")
            /\ UNCHANGED port
    /\ UNCHANGED <<environ, name, globals, heap, server>>

\* Line 34: the arguments of the call
RunArguments(r) == [app |-> app[r], host |-> HOST, port |-> port[r]]

\* Line 34: uvicorn.run(app, host=..., port=...); the call does not return while
\* the server runs
UvicornRun(r) ==
    /\ pc[r] = "uvicorn_run"
    /\ server' = [server EXCEPT ![r] = RunArguments(r)]
    /\ Goto(r, "uvicorn_run", "serving")
    /\ UNCHANGED <<environ, name, globals, heap, port, raised>>

\* The server stops, which the script does not decide: it is stopped from
\* outside (a signal) or gives up on its own; uvicorn.run returns or exits and
\* the script, having no further statement, ends.
Terminate(r) ==
    /\ pc[r] = "serving"
    /\ pc' = [pc EXCEPT ![r] = "exited"]
    /\ UNCHANGED <<environ, name, globals, heap, port, server, raised, trace>>

\* A statement of the script itself.
Statement(r) ==
    \/ ReadBaseUrl(r)
    \/ ReadApiKey(r)
    \/ CheckBaseUrl(r)
    \/ MakeStorage(r)
    \/ MakeModel(r)
    \/ MakeAgent(r)
    \/ MakeAgentOS(r)
    \/ GetApp(r)
    \/ MainGuard(r)
    \/ EvalPort(r)
    \/ UvicornRun(r)

Next == \E r \in Runs : Statement(r) \/ Terminate(r)

Spec == Init /\ [][Next]_vars

\* One execution followed to its end: the interpreter executes the next statement
\* of a script that has one; nothing obliges the outside world to stop the server.
Followed == {1}

NextFollowed == \E r \in Followed : Statement(r) \/ Terminate(r)

FairSpec == Init /\ [][NextFollowed]_vars /\ \A r \in Followed : WF_vars(Statement(r))

(***************************************************************************)
(* Vocabulary of the properties.                                           *)
(***************************************************************************)
Executed(r, stmt) == \E i \in 1..Len(trace[r]) : trace[r][i] = stmt

\* The script has no further statement to execute.
Ended(r) == pc[r] \in {"error", "imported", "serving", "exited"}

\* The script is executed, not imported.
RunDirectly(r) == name[r] = "__main__"

BaseUrlUnset(r) == environ[r][BASE_URL_VAR] = Unset

BaseUrlNonEmpty(r) ==
    /\ environ[r][BASE_URL_VAR] # Unset
    /\ environ[r][BASE_URL_VAR].val # <<>>

PortUnset(r) == environ[r][PORT_VAR] = Unset

\* The string int() is applied to is one it accepts.
PortConverts(r) == IntParses(PortText(r).val)

Mentions(exception, word) ==
    \E i \in 1..Len(exception.message) : exception.message[i] = word

MissingConfiguration(r) == raised[r] = ValueError(MissingBaseUrlMessage)

InvalidPort(r) == raised[r] = ValueError(InvalidLiteralMessage)

\* uvicorn.run has been called: the network server was started.
StartRequested(r) == server[r] # Unset

AllConstructed(r) ==
    /\ storage[r] # Unset
    /\ blockether_model[r] # Unset
    /\ conversational_agent[r] # Unset
    /\ agent_os[r] # Unset
    /\ app[r] # Unset

NoneConstructed(r) ==
    /\ storage[r] = Unset
    /\ blockether_model[r] = Unset
    /\ conversational_agent[r] = Unset
    /\ agent_os[r] = Unset
    /\ app[r] = Unset
    /\ heap[r] = <<>>

IsPrefix(s, t) == Len(s) <= Len(t) /\ s = SubSeq(t, 1, Len(s))

(***************************************************************************)
(* C1.  With BLOCKETHER_LLM_API_BASE_URL unset, whatever the API key, PORT *)
(* and __name__, the script ends in an error whose message names           *)
(* BLOCKETHER_LLM_API_BASE_URL, and the server is never started.           *)
(***************************************************************************)
C1_UnsetBaseUrlFails ==
    \A r \in Runs :
        BaseUrlUnset(r) =>
            /\ ~StartRequested(r)
            /\ pc[r] \notin {"imported", "serving", "exited"}
            /\ Executed(r, "check_base_url") =>
                  /\ pc[r] = "error"
                  /\ raised[r].type = "ValueError"
                  /\ Mentions(raised[r], BASE_URL_VAR)
                  /\ trace[r] = <<"read_base_url", "read_api_key", "check_base_url">>

C1_Witness ==
    \E r \in Runs :
        /\ BaseUrlUnset(r)
        /\ RunDirectly(r)
        /\ ~PortUnset(r)
        /\ pc[r] = "error"
        /\ Mentions(raised[r], BASE_URL_VAR)

(***************************************************************************)
(* C2 as stated.  Run as __main__ with the base URL set, the script calls  *)
(* uvicorn.run with host 0.0.0.0, with the port int(PORT) when PORT is set *)
(* and 8080 when it is not, and with the web handler got from agent_os.    *)
(***************************************************************************)
C2_Original ==
    \A r \in Runs :
        (RunDirectly(r) /\ ~BaseUrlUnset(r) /\ Ended(r)) =>
            /\ StartRequested(r)
            /\ server[r].host = "0.0.0.0"
            /\ server[r].port.val =
                  IF PortUnset(r) THEN 8080 ELSE IntValue(environ[r][PORT_VAR].val)
            /\ server[r].app = app[r]

(***************************************************************************)
(* C2 as amended.  Whenever the script calls uvicorn.run it is as          *)
(* __main__, with host 0.0.0.0, with the port int(PORT) when PORT is set   *)
(* (9090 for PORT=9090) and 8080 when it is not, and with the web handler  *)
(* got from agent_os; and run as __main__ with a non-empty base URL and a  *)
(* PORT that is unset or a string int() accepts, it does call uvicorn.run. *)
(***************************************************************************)
C2_RunArguments ==
    \A r \in Runs :
        /\ StartRequested(r) =>
              /\ RunDirectly(r)
              /\ server[r].host = "0.0.0.0"
              /\ PortUnset(r) => server[r].port = PyInt(8080)
              /\ ~PortUnset(r) =>
                    server[r].port = PyInt(IntValue(environ[r][PORT_VAR].val))
              /\ environ[r][PORT_VAR] = PyStr(<<"9", "0", "9", "0">>) =>
                    server[r].port = PyInt(9090)
              /\ server[r].app = app[r]
              /\ app[r] # Unset
              /\ app[r].agent_os = agent_os[r]
        /\ (RunDirectly(r) /\ BaseUrlNonEmpty(r) /\ PortConverts(r) /\ Ended(r)) =>
              (StartRequested(r) /\ pc[r] \in {"serving", "exited"})

C2_Witness ==
    \E r \in Runs :
        /\ pc[r] = "serving"
        /\ PortUnset(r)
        /\ server[r].port.val = 8080
        /\ server[r].host = "0.0.0.0"

(***************************************************************************)
(* C3 as stated.  Imported, the script never starts the server and never   *)
(* reads PORT, and the five objects are constructed whenever the base URL  *)
(* is set.                                                                 *)
(***************************************************************************)
C3_Original ==
    \A r \in Runs :
        ~RunDirectly(r) =>
            /\ ~StartRequested(r)
            /\ ~Executed(r, "eval_port")
            /\ (~BaseUrlUnset(r) /\ Ended(r)) => AllConstructed(r)

(***************************************************************************)
(* C3 as amended.  Imported, the script never starts the server and never  *)
(* reads PORT, and the five objects are constructed whenever the base URL  *)
(* is set to a non-empty string.                                           *)
(***************************************************************************)
C3_ImportNeverBinds ==
    \A r \in Runs :
        ~RunDirectly(r) =>
            /\ ~StartRequested(r)
            /\ port[r] = Unset
            /\ ~Executed(r, "eval_port")
            /\ ~Executed(r, "uvicorn_run")
            /\ pc[r] \notin {"eval_port", "uvicorn_run", "serving", "exited"}
            /\ (BaseUrlNonEmpty(r) /\ Ended(r)) =>
                  (pc[r] = "imported" /\ AllConstructed(r))

C3_Witness ==
    \E r \in Runs :
        /\ ~RunDirectly(r)
        /\ ~PortUnset(r)
        /\ pc[r] = "imported"
        /\ AllConstructed(r)

(***************************************************************************)
(* C4 as stated, its last part.  Run as __main__ with the base URL set,    *)
(* the only error the script ends in is the missing-configuration error.   *)
(***************************************************************************)
C4_Original ==
    \A r \in Followed :
        (RunDirectly(r) /\ ~BaseUrlUnset(r) /\ pc[r] = "error") => MissingConfiguration(r)

(***************************************************************************)
(* C4 as amended.  Run as __main__ with a non-empty base URL and a PORT    *)
(* that is unset or a string int() accepts, the script reaches the call of *)
(* uvicorn.run and leaves the serving state only by termination from       *)
(* outside; the errors the script ends in are the missing-configuration    *)
(* error (base URL unset or empty) and the ValueError of int() (PORT set   *)
(* to a string int() rejects).                                             *)
(***************************************************************************)
C4_ServesUntilTerminated ==
    /\ \A r \in Followed :
          (pc[r] = "read_base_url" /\ RunDirectly(r) /\ BaseUrlNonEmpty(r) /\ PortConverts(r))
              ~> (pc[r] = "serving" /\ StartRequested(r))
    /\ [][\A r \in Followed :
            pc[r] = "serving" => (pc'[r] = "serving" \/ (Terminate(r) /\ pc'[r] = "exited"))]_vars
    /\ [](\A r \in Followed :
            /\ (RunDirectly(r) /\ BaseUrlNonEmpty(r) /\ PortConverts(r)) => pc[r] # "error"
            /\ pc[r] = "error" =>
                  \/ MissingConfiguration(r) /\ ~BaseUrlNonEmpty(r)
                  \/ InvalidPort(r) /\ BaseUrlNonEmpty(r) /\ RunDirectly(r) /\ ~PortConverts(r))

C4_Witness ==
    \E r \in Followed :
        /\ RunDirectly(r)
        /\ BaseUrlNonEmpty(r)
        /\ ~PortUnset(r)
        /\ pc[r] = "exited"
        /\ StartRequested(r)

(***************************************************************************)
(* C5.  Two executions whose environments differ only in                   *)
(* BLOCKETHER_LLM_API_KEY (unset, empty or a value) execute the same       *)
(* statements and, after equally many statements, are in the same state    *)
(* but for MODEL_API_KEY: the same error or the same arguments of          *)
(* uvicorn.run.  The API key alone never makes startup fail.               *)
(***************************************************************************)
DifferOnlyInApiKey(r1, r2) ==
    /\ name[r1] = name[r2]
    /\ \A n \in EnvNames \ {API_KEY_VAR} : environ[r1][n] = environ[r2][n]

\* Where the script stands, the stop from outside left aside.
Position(r) == IF pc[r] = "exited" THEN "serving" ELSE pc[r]

Outcome(r) ==
    [position |-> Position(r), raised |-> raised[r], server |-> server[r],
     port |-> port[r], MODEL_BASE_URL |-> MODEL_BASE_URL[r], storage |-> storage[r],
     blockether_model |-> blockether_model[r],
     conversational_agent |-> conversational_agent[r], agent_os |-> agent_os[r],
     app |-> app[r], heap |-> heap[r]]

C5_ApiKeyNotValidated ==
    \A r1, r2 \in Runs :
        DifferOnlyInApiKey(r1, r2) =>
            /\ IsPrefix(trace[r1], trace[r2]) \/ IsPrefix(trace[r2], trace[r1])
            /\ Len(trace[r1]) = Len(trace[r2]) => Outcome(r1) = Outcome(r2)
            /\ (BaseUrlNonEmpty(r1) /\ Falsy(getenv(environ[r1], API_KEY_VAR, None))) =>
                  ~MissingConfiguration(r1)

C5_Witness ==
    \E r1, r2 \in Runs :
        /\ DifferOnlyInApiKey(r1, r2)
        /\ environ[r1][API_KEY_VAR] = Unset
        /\ environ[r2][API_KEY_VAR] = PyStr(<<"s", "k">>)
        /\ MODEL_API_KEY[r1] = None
        /\ MODEL_API_KEY[r2] = PyStr(<<"s", "k">>)
        /\ pc[r1] = "serving"
        /\ pc[r2] = "serving"
        /\ server[r1] = server[r2]

(***************************************************************************)
(* C6.  The objects are constructed in the order storage, model client,    *)
(* agent, server application, web handler; the model client is given the   *)
(* base URL read from the environment, the agent that model and that       *)
(* storage, the server application that agent with the MCP server enabled; *)
(* every object given to a constructor was constructed before, and         *)
(* uvicorn.run is called only once the web handler exists.                 *)
(***************************************************************************)
ConstructionOrder == <<"InMemoryDb", "OpenAIChat", "Agent", "AgentOS", "FastAPI">>

IsNamedClass(c) == \E i \in 1..Len(ConstructionOrder) : ConstructionOrder[i] = c

\* o is the object of class c that was constructed as the heap's entry number o.id
Constructed(r, o, c) ==
    /\ o # Unset
    /\ o.type = c
    /\ o.id \in 1..Len(heap[r])
    /\ heap[r][o.id] = c

C6_ConstructionOrder ==
    \A r \in Runs :
        /\ IsPrefix(SelectSeq(heap[r], IsNamedClass), ConstructionOrder)
        /\ (pc[r] \in {"imported", "serving", "exited"}) =>
              SelectSeq(heap[r], IsNamedClass) = ConstructionOrder
        /\ storage[r] # Unset => Constructed(r, storage[r], "InMemoryDb")
        /\ blockether_model[r] # Unset =>
              /\ Constructed(r, blockether_model[r], "OpenAIChat")
              /\ blockether_model[r].base_url = environ[r][BASE_URL_VAR]
              /\ blockether_model[r].base_url.type = "str"
        /\ conversational_agent[r] # Unset =>
              /\ Constructed(r, conversational_agent[r], "Agent")
              /\ conversational_agent[r].model = blockether_model[r]
              /\ conversational_agent[r].db = storage[r]
              /\ Constructed(r, conversational_agent[r].model, "OpenAIChat")
              /\ Constructed(r, conversational_agent[r].db, "InMemoryDb")
              /\ conversational_agent[r].model.id < conversational_agent[r].id
              /\ conversational_agent[r].db.id < conversational_agent[r].id
        /\ agent_os[r] # Unset =>
              /\ Constructed(r, agent_os[r], "AgentOS")
              /\ agent_os[r].agents = <<conversational_agent[r]>>
              /\ agent_os[r].enable_mcp_server = TRUE
              /\ Constructed(r, agent_os[r].agents[1], "Agent")
              /\ agent_os[r].agents[1].id < agent_os[r].id
        /\ app[r] # Unset =>
              /\ Constructed(r, app[r], "FastAPI")
              /\ app[r].agent_os = agent_os[r]
              /\ Constructed(r, app[r].agent_os, "AgentOS")
              /\ app[r].agent_os.id < app[r].id
        /\ StartRequested(r) =>
              /\ Constructed(r, server[r].app, "FastAPI")
              /\ server[r].app = app[r]

C6_Witness ==
    \E r \in Runs :
        /\ pc[r] = "serving"
        /\ SelectSeq(heap[r], IsNamedClass) = ConstructionOrder
        /\ StartRequested(r)

(***************************************************************************)
(* C7.  When the base URL check fails, nothing has been constructed, PORT  *)
(* has not been read and the server has not been started.                  *)
(***************************************************************************)
C7_FailsBeforeConstruction ==
    \A r \in Runs :
        MissingConfiguration(r) =>
            /\ pc[r] = "error"
            /\ NoneConstructed(r)
            /\ port[r] = Unset
            /\ ~Executed(r, "eval_port")
            /\ ~StartRequested(r)

C7_Witness ==
    \E r \in Runs :
        /\ MissingConfiguration(r)
        /\ pc[r] = "error"
        /\ RunDirectly(r)
        /\ ~PortUnset(r)

(***************************************************************************)
(* C8.  Each of storage, blockether_model, conversational_agent, agent_os  *)
(* and app is assigned once and never again, one object of each class is   *)
(* constructed, and the agent in agent_os's agent list is the very agent   *)
(* its AG-UI interface is bound to.                                        *)
(***************************************************************************)
Handles(r) ==
    <<storage[r], blockether_model[r], conversational_agent[r], agent_os[r], app[r]>>

Count(seq, c) == Cardinality({i \in 1..Len(seq) : seq[i] = c})

SingleAgent(r) ==
    agent_os[r] # Unset =>
        /\ Len(agent_os[r].agents) = 1
        /\ Len(agent_os[r].interfaces) = 1
        /\ agent_os[r].agents[1] = conversational_agent[r]
        /\ agent_os[r].interfaces[1].agent = conversational_agent[r]
        /\ agent_os[r].interfaces[1].agent.id = agent_os[r].agents[1].id

C8_HandlesCreatedOnce ==
    /\ [](\A r \in Runs :
            /\ SingleAgent(r)
            /\ pc[r] \in {"imported", "serving", "exited"} => AllConstructed(r)
            /\ \A i \in 1..Len(ConstructionOrder) :
                  /\ Count(heap[r], ConstructionOrder[i]) <= 1
                  /\ Handles(r)[i] # Unset <=> Count(heap[r], ConstructionOrder[i]) = 1)
    /\ [][\A r \in Runs : \A i \in 1..Len(ConstructionOrder) :
            Handles(r)[i] # Unset => Handles(r)'[i] = Handles(r)[i]]_vars

C8_Witness ==
    \E r \in Runs :
        /\ pc[r] = "exited"
        /\ AllConstructed(r)
        /\ agent_os[r].interfaces[1].agent = agent_os[r].agents[1]

(***************************************************************************)
(* C9.  The base URL check fails, with the one 'is not set' error, exactly *)
(* when BLOCKETHER_LLM_API_BASE_URL is unset or set to the empty string.   *)
(***************************************************************************)
C9_EmptyBaseUrlRejected ==
    \A r \in Runs :
        Executed(r, "check_base_url") =>
            /\ MissingConfiguration(r) <=> ~BaseUrlNonEmpty(r)
            /\ MissingConfiguration(r) => pc[r] = "error"
            /\ ~MissingConfiguration(r) => Executed(r, "make_storage") \/ pc[r] = "make_storage"

C9_Witness ==
    \E r \in Runs :
        /\ environ[r][BASE_URL_VAR] = PyStr(<<>>)
        /\ pc[r] = "error"
        /\ MissingConfiguration(r)

(***************************************************************************)
(* C10.  PORT is converted in the last statement of a direct execution     *)
(* only, after the five objects are constructed; a PORT that int() rejects *)
(* makes the script fail there, with everything constructed and the        *)
(* server not started, and changes nothing when the script is imported.    *)
(***************************************************************************)
StatementsBeforePort ==
    <<"read_base_url", "read_api_key", "check_base_url", "make_storage", "make_model",
      "make_agent", "make_agent_os", "get_app", "main_guard">>

C10_PortConvertedLast ==
    \A r \in Runs :
        /\ (port[r] # Unset \/ InvalidPort(r) \/ Executed(r, "eval_port")) =>
              /\ RunDirectly(r)
              /\ AllConstructed(r)
              /\ IsPrefix(Append(StatementsBeforePort, "eval_port"), trace[r])
        /\ (RunDirectly(r) /\ BaseUrlNonEmpty(r) /\ ~PortConverts(r)) =>
              /\ ~StartRequested(r)
              /\ port[r] = Unset
              /\ Ended(r) =>
                    /\ pc[r] = "error"
                    /\ InvalidPort(r)
                    /\ AllConstructed(r)
                    /\ trace[r] = Append(StatementsBeforePort, "eval_port")
        /\ (~RunDirectly(r) /\ BaseUrlNonEmpty(r)) =>
              /\ ~InvalidPort(r)
              /\ Ended(r) => (pc[r] = "imported" /\ trace[r] = StatementsBeforePort)

C10_Witness ==
    \E r \in Runs :
        /\ RunDirectly(r)
        /\ environ[r][PORT_VAR] = PyStr(<<"a", "b", "c">>)
        /\ pc[r] = "error"
        /\ InvalidPort(r)
        /\ AllConstructed(r)

====
